---- MODULE Spec2Model ----
(***************************************************************************)
(* The tournament blueprint (src/tournament.py): the handlers that write   *)
(* the store (create_atleta, criar_inscricao, gerar_chaveamento,           *)
(* inserir_resultado) and the bracket read (get_chaveamento).              *)
(*                                                                         *)
(* A table is the sequence of its rows in insertion order; a row's id is   *)
(* its position (autoincrement primary key; no handler deletes a row).     *)
(* Spec, SpecAtleta, SpecReg and SpecJogo handle one request at a time     *)
(* (each action is a whole handler, commit or rollback included).          *)
(* SpecConc interleaves two workers, each between its existence query and  *)
(* its commit.                                                             *)
(***************************************************************************)
EXTENDS Integers, Sequences, FiniteSets

VARIABLES
    atletas,       \* table Atleta
    inscricoes,    \* table Inscricao
    chaveamentos,  \* table Chaveamento
    jogos,         \* table Jogo
    clock,         \* the last value datetime.utcnow() returned
    req,           \* the request handled last
    resp,          \* the response to it
    pre,           \* history: the tables as that request found them
    gens,          \* history: per (torneio, categoria), the confirmed set of each successful generation
    workers        \* per worker, the request it is in the middle of (SpecConc)

vars == <<atletas, inscricoes, chaveamentos, jogos, clock, req, resp, pre, gens, workers>>

-----------------------------------------------------------------------------
(* Bounds of the model *)

MaxAtletas == 2
MaxInscricoes == 4
MaxJogos == 2
MaxRegistos == 2

\* Python's None (data.get of an absent key; a column not set)
None == -1

\* the ids requests name
Torneios == {1, 2}
Categorias == {1}
AtletaIds == 1..MaxInscricoes
Pares == Torneios \X Categorias
\* the scores requests carry
Placares == {0, 1}
\* match ids a request may name: every id in use and one beyond
JogoIds == 1..(MaxJogos + 1)

Emails == {"a@x", "b@x", "c@x"}
Nomes == {"Ana"}
\* one string strptime(..., '%Y-%m-%d') accepts and one it rejects
DateStrings == {"2000-01-31", "31/01/2000"}
WellFormedDate(s) == s = "2000-01-31"
\* datetime.strptime(s, '%Y-%m-%d').date(), as the number yyyymmdd
Strptime(s) == IF s = "2000-01-31" THEN 20000131 ELSE None
\* team names and notes are opaque strings, numbered
NomesEquipe == {1}
Parceiros == {1}

\* Inscricao.status: the handlers only ever compare it with 'confirmada'
InscricaoStatus == {"pendente", "confirmada"}

-----------------------------------------------------------------------------
(* Request bodies: a JSON object is a record; an absent key is an absent field *)

Has(data, k) == k \in DOMAIN data

\* data.get(k)
Get(data, k) == IF Has(data, k) THEN data[k] ELSE None

AtletaBodies ==
    [nome : Nomes, email : Emails]
    \cup [nome : Nomes, email : Emails, data_nascimento : DateStrings]
    \cup [email : Emails]
    \cup [nome : Nomes]

InscricaoKeys == [torneio_id : Torneios, categoria_id : Categorias, atleta_id : AtletaIds]

\* bodies with the three keys only
InscricaoBodiesPlain == InscricaoKeys

InscricaoBodiesFull ==
    InscricaoKeys
    \cup [torneio_id : Torneios, categoria_id : Categorias, atleta_id : AtletaIds,
          parceiro_id : Parceiros]
    \cup [torneio_id : Torneios, categoria_id : Categorias, atleta_id : AtletaIds,
          parceiro_id : Parceiros, nome_equipe : NomesEquipe]
    \cup [torneio_id : Torneios, categoria_id : Categorias]

\* both scores; both scores and notes; the second score missing
ResultadoBodies ==
    [placar_equipe1 : Placares, placar_equipe2 : Placares]
    \cup {[placar_equipe1 |-> 1, placar_equipe2 |-> 0, observacoes |-> 1]}
    \cup {[placar_equipe1 |-> 1]}

-----------------------------------------------------------------------------
(* Queries *)

Ids(table) == DOMAIN table

\* query.filter_by(...).first(): the id of the first matching row, 0 when none
First(S) == IF S = {} THEN 0 ELSE CHOOSE i \in S : \A j \in S : i <= j

\* Atleta.query.filter_by(email=data['email'])
AtletasComEmail(tab, email) == {i \in Ids(tab) : tab[i].email = email}

\* Inscricao.query.filter_by(torneio_id=, categoria_id=, atleta_id=)
InscricoesDe(tab, t, c, a) ==
    {i \in Ids(tab) : tab[i].torneio_id = t /\ tab[i].categoria_id = c /\ tab[i].atleta_id = a}

\* Inscricao.query.filter_by(torneio_id=, categoria_id=, status='confirmada')
Confirmadas(tab, t, c) ==
    {i \in Ids(tab) : tab[i].torneio_id = t /\ tab[i].categoria_id = c
                      /\ tab[i].status = "confirmada"}

\* Chaveamento.query.filter_by(torneio_id=, categoria_id=)
ChaveamentosDe(tab, t, c) ==
    {i \in Ids(tab) : tab[i].torneio_id = t /\ tab[i].categoria_id = c}

\* Jogo.query.filter_by(torneio_id=, categoria_id=)
JogosDe(tab, t, c) ==
    {i \in Ids(tab) : tab[i].torneio_id = t /\ tab[i].categoria_id = c}

\* the tables, as one value
Store == [atletas |-> atletas, inscricoes |-> inscricoes,
          chaveamentos |-> chaveamentos, jogos |-> jogos]

-----------------------------------------------------------------------------
(* Responses *)

\* jsonify(...), code: the status code and what the body identifies
Resposta(code, id) == [code |-> code, id |-> id, jogos |-> {}]

\* except Exception as e: db.session.rollback(); return jsonify({'error': str(e)}), 500
\* (every exception the try body raises ends here, werkzeug's NotFound of
\* get_or_404 included: HTTPException is a subclass of Exception)
ExceptException == Resposta(500, 0)

\* a request that ends without a commit: the tables stay as they were
Rejeita(r, answer) ==
    /\ req' = r
    /\ resp' = answer
    /\ pre' = Store
    /\ UNCHANGED <<atletas, inscricoes, chaveamentos, jogos, clock, gens>>

-----------------------------------------------------------------------------
(* POST /atletas *)

\* Atleta(nome=..., email=..., data_nascimento=...): the optional columns
\* altura, peso, pais, foto_url and categoria are copied with data.get like
\* data_nascimento and take no part in any check
NovoAtleta(data) ==
    [nome |-> data.nome, email |-> data.email,
     data_nascimento |-> IF Has(data, "data_nascimento")
                         THEN Strptime(data.data_nascimento) ELSE None]

\* the try body raises: data['email'] or data['nome'] is a KeyError, a
\* malformed data_nascimento a ValueError
AtletaRaises(data) ==
    \/ ~Has(data, "email")
    \/ ~Has(data, "nome")
    \/ (Has(data, "data_nascimento") /\ ~WellFormedDate(data.data_nascimento))

\* the query on another column
EmailJaCadastradoPorNome(tab, data) == {i \in Ids(tab) : tab[i].nome = data.email} # {}

\* if Atleta.query.filter_by(email=data['email']).first()
EmailJaCadastrado(tab, data) == AtletasComEmail(tab, data.email) # {}

\* atletas after db.session.add(atleta); db.session.commit()
AtletasAdd(tab, row) == Append(tab, row)

\* the handler from the answer of its existence query on: found is what
\* the query returned
AtletaCommit(r, data, found) ==
    IF found THEN Rejeita(r, Resposta(400, 0))
    ELSE IF AtletaRaises(data) THEN Rejeita(r, ExceptException)
    ELSE /\ Len(atletas) < MaxAtletas
         /\ atletas' = AtletasAdd(atletas, NovoAtleta(data))
         /\ req' = r
         /\ resp' = Resposta(201, Len(atletas) + 1)
         /\ pre' = Store
         /\ UNCHANGED <<inscricoes, chaveamentos, jogos, clock, gens>>

AtletaReq(data) == [handler |-> "create_atleta", data |-> data]

create_atleta(data) ==
    /\ IF ~Has(data, "email") THEN Rejeita(AtletaReq(data), ExceptException)
       ELSE AtletaCommit(AtletaReq(data), data, EmailJaCadastrado(atletas, data))
    /\ UNCHANGED workers

-----------------------------------------------------------------------------
(* POST /inscricoes *)

\* Inscricao(torneio_id=..., categoria_id=..., atleta_id=..., parceiro_id=...,
\* nome_equipe=...); the handler sets no status: the column takes the value
\* the Inscricao model gives it, which this file does not fix
NovaInscricao(data, status) ==
    [torneio_id |-> data.torneio_id, categoria_id |-> data.categoria_id,
     atleta_id |-> data.atleta_id, parceiro_id |-> Get(data, "parceiro_id"),
     nome_equipe |-> Get(data, "nome_equipe"), status |-> status]

\* data['torneio_id'], data['categoria_id'], data['atleta_id'] raise KeyError
InscricaoRaises(data) ==
    ~(Has(data, "torneio_id") /\ Has(data, "categoria_id") /\ Has(data, "atleta_id"))

\* the query with the partner as a fourth key
InscricaoExistenteComParceiro(tab, data) ==
    First({i \in InscricoesDe(tab, data.torneio_id, data.categoria_id, data.atleta_id) :
              tab[i].parceiro_id = Get(data, "parceiro_id")})

\* inscricao_existente
InscricaoExistente(tab, data) ==
    First(InscricoesDe(tab, data.torneio_id, data.categoria_id, data.atleta_id))

\* inscricoes after db.session.add(inscricao); db.session.commit()
InscricoesAdd(tab, row) == Append(tab, row)

\* the handler from the answer of its existence query on: existente is the
\* row the query returned, 0 when none
InscricaoCommit(r, data, status, existente) ==
    IF existente # 0 THEN Rejeita(r, Resposta(400, 0))
    ELSE /\ Len(inscricoes) < MaxInscricoes
         /\ inscricoes' = InscricoesAdd(inscricoes, NovaInscricao(data, status))
         /\ req' = r
         /\ resp' = Resposta(201, Len(inscricoes) + 1)
         /\ pre' = Store
         /\ UNCHANGED <<atletas, chaveamentos, jogos, clock, gens>>

InscricaoReq(data) == [handler |-> "criar_inscricao", data |-> data]

criar_inscricao(data, status) ==
    /\ IF InscricaoRaises(data) THEN Rejeita(InscricaoReq(data), ExceptException)
       ELSE InscricaoCommit(InscricaoReq(data), data, status,
                            InscricaoExistente(inscricoes, data))
    /\ UNCHANGED workers

-----------------------------------------------------------------------------
(* POST /torneios/<torneio_id>/chaveamento/<categoria_id>/gerar *)

\* the outcomes of random.shuffle(inscricoes): every order of the rows
RECURSIVE Shuffles(_)
Shuffles(S) ==
    IF S = {} THEN {<<>>}
    ELSE UNION {{<<x>> \o p : p \in Shuffles(S \ {x})} : x \in S}

\* estrutura: the shuffled participants (each inscricao.to_dict(), here its
\* id), no phases and the type tag; estrutura_json is the text that encodes it
Estrutura(perm) ==
    [participantes |-> perm, fases |-> <<>>, tipo |-> "eliminacao_simples"]

\* the status column of a new Jogo, which the handler does not set
JogoStatusDefault == "agendado"

\* Jogo(torneio_id=, categoria_id=, fase='primeira_fase', rodada=1, equipe1_id=, equipe2_id=)
NovoJogo(t, c, e1, e2) ==
    [torneio_id |-> t, categoria_id |-> c, fase |-> "primeira_fase", rodada |-> 1,
     equipe1_id |-> e1, equipe2_id |-> e2,
     placar_equipe1 |-> None, placar_equipe2 |-> None,
     status |-> JogoStatusDefault, observacoes |-> None]

\* for i in range(0, len(inscricoes), 2): if i + 1 < len(inscricoes): add Jogo
\* (perm is indexed from 1: inscricoes[i] is perm[i + 1])
RECURSIVE PrimeiraFaseLoop(_, _, _, _, _)
PrimeiraFaseLoop(t, c, perm, i, acc) ==
    IF i >= Len(perm) THEN acc
    ELSE PrimeiraFaseLoop(t, c, perm, i + 2,
            IF i + 1 < Len(perm)
            THEN Append(acc, NovoJogo(t, c, perm[i + 1], perm[i + 2]))
            ELSE acc)

\* the loop stepping by 1: consecutive pairs overlap
RECURSIVE PrimeiraFasePasso1(_, _, _, _, _)
PrimeiraFasePasso1(t, c, perm, i, acc) ==
    IF i >= Len(perm) THEN acc
    ELSE PrimeiraFasePasso1(t, c, perm, i + 1,
            IF i + 1 < Len(perm)
            THEN Append(acc, NovoJogo(t, c, perm[i + 1], perm[i + 2]))
            ELSE acc)

PrimeiraFaseSobreposta(t, c, perm) == PrimeiraFasePasso1(t, c, perm, 0, <<>>)

PrimeiraFase(t, c, perm) == PrimeiraFaseLoop(t, c, perm, 0, <<>>)

\* a generation that replaces the matches instead of adding to them
JogosSubstitui(tab, novos) == novos

\* jogos after the loop's db.session.add(jogo) and the commit
JogosAdd(tab, novos) == tab \o novos

\* Chaveamento(torneio_id=, categoria_id=, estrutura_json=); data_atualizacao
\* is not set on this path
NovoChaveamento(t, c, perm) ==
    [torneio_id |-> t, categoria_id |-> c, estrutura_json |-> Estrutura(perm),
     data_atualizacao |-> None]

\* the else branch taken always
ChaveamentoSempreNovo(tab, ch, t, c, perm, now) == Append(tab, NovoChaveamento(t, c, perm))

\* if chaveamento: overwrite structure and timestamp; else: add a row
ChaveamentoUpsert(tab, ch, t, c, perm, now) ==
    IF ch # 0
    THEN [tab EXCEPT ![ch].estrutura_json = Estrutura(perm), ![ch].data_atualizacao = now]
    ELSE Append(tab, NovoChaveamento(t, c, perm))

\* what the commit of a generation leaves (shared by the one-at-a-time and
\* the interleaved handler); ch is the row the existence query found
GerarCommit(r, t, c, perm, ch) ==
    /\ Len(jogos) + Len(PrimeiraFase(t, c, perm)) <= MaxJogos
    /\ chaveamentos' = ChaveamentoUpsert(chaveamentos, ch, t, c, perm, clock + 1)
    /\ clock' = IF ch # 0 THEN clock + 1 ELSE clock
    /\ jogos' = JogosAdd(jogos, PrimeiraFase(t, c, perm))
    /\ gens' = [gens EXCEPT ![<<t, c>>] = Append(@, {perm[i] : i \in DOMAIN perm})]
    /\ req' = r
    /\ resp' = Resposta(201, IF ch # 0 THEN ch ELSE Len(chaveamentos) + 1)
    /\ pre' = Store
    /\ UNCHANGED <<atletas, inscricoes>>

GerarReq(t, c) == [handler |-> "gerar_chaveamento", torneio_id |-> t, categoria_id |-> c]

\* the threshold one too low
InsuficienteMenosUm(insc) == Cardinality(insc) < 1

\* if len(inscricoes) < 2
Insuficiente(insc) == Cardinality(insc) < 2

\* chaveamento = Chaveamento.query.filter_by(...).first()
ChaveamentoExistente(tab, t, c) == First(ChaveamentosDe(tab, t, c))

gerar_chaveamento(t, c) ==
    LET insc == Confirmadas(inscricoes, t, c)
    IN  /\ IF Insuficiente(insc) THEN Rejeita(GerarReq(t, c), Resposta(400, 0))
           ELSE \E perm \in Shuffles(insc) :
                   GerarCommit(GerarReq(t, c), t, c, perm,
                               ChaveamentoExistente(chaveamentos, t, c))
        /\ UNCHANGED workers

-----------------------------------------------------------------------------
(* GET /torneios/<torneio_id>/chaveamento/<categoria_id> *)

get_chaveamento(t, c) ==
    LET r == [handler |-> "get_chaveamento", torneio_id |-> t, categoria_id |-> c]
        ch == First(ChaveamentosDe(chaveamentos, t, c))
    IN  /\ IF ch = 0 THEN Rejeita(r, Resposta(404, 0))
           ELSE Rejeita(r, [code |-> 200, id |-> ch, jogos |-> JogosDe(jogos, t, c)])
        /\ UNCHANGED workers

-----------------------------------------------------------------------------
(* POST /jogos/<jogo_id>/resultado *)

\* Jogo.query.get_or_404(jogo_id) raises NotFound
GetOr404Raises(tab, id) == id \notin Ids(tab)

\* data['placar_equipe1'], data['placar_equipe2'] raise KeyError
ResultadoRaises(data) == ~(Has(data, "placar_equipe1") /\ Has(data, "placar_equipe2"))

\* the two scores crossed
ComResultadoTrocado(jogo, data) ==
    [jogo EXCEPT !.placar_equipe1 = data.placar_equipe2,
                 !.placar_equipe2 = data.placar_equipe1,
                 !.status = "finalizado",
                 !.observacoes = Get(data, "observacoes")]

\* the four assignments to the row
ComResultado(jogo, data) ==
    [jogo EXCEPT !.placar_equipe1 = data.placar_equipe1,
                 !.placar_equipe2 = data.placar_equipe2,
                 !.status = "finalizado",
                 !.observacoes = Get(data, "observacoes")]

inserir_resultado(jogo_id, data) ==
    LET r == [handler |-> "inserir_resultado", jogo_id |-> jogo_id, data |-> data] IN
    IF GetOr404Raises(jogos, jogo_id) THEN Rejeita(r, ExceptException) /\ UNCHANGED workers
    ELSE IF ResultadoRaises(data) THEN Rejeita(r, ExceptException) /\ UNCHANGED workers
    ELSE /\ jogos' = [jogos EXCEPT ![jogo_id] = ComResultado(@, data)]
         /\ req' = r
         /\ resp' = Resposta(200, jogo_id)
         /\ pre' = Store
         /\ UNCHANGED <<atletas, inscricoes, chaveamentos, clock, gens, workers>>

-----------------------------------------------------------------------------
(* One request at a time *)

Idle == [stage |-> "idle"]
Workers == {1, 2}

Init ==
    /\ atletas = <<>>
    /\ inscricoes = <<>>
    /\ chaveamentos = <<>>
    /\ jogos = <<>>
    /\ clock = 0
    /\ req = [handler |-> "none"]
    /\ resp = Resposta(0, 0)
    /\ pre = [atletas |-> <<>>, inscricoes |-> <<>>, chaveamentos |-> <<>>, jogos |-> <<>>]
    /\ gens = [p \in Pares |-> <<>>]
    /\ workers = [w \in Workers |-> Idle]

\* Athlete ids are opaque (the handlers only compare them): a request names
\* an id some registration already holds, or the least id none holds
AtletasNomeaveis ==
    LET used == {inscricoes[i].atleta_id : i \in Ids(inscricoes)}
    IN  {a \in AtletaIds : \A b \in 1..(a - 1) : b \in used}

\* registrations for the brackets: new triples only (SpecReg has the
\* duplicates and the malformed bodies); tournament 1 takes every athlete,
\* tournament 2 athlete 1 only (a second pair, whose rows the queries of
\* the first must leave out)
CriarInscricao ==
    \E d \in InscricaoBodiesPlain, s \in InscricaoStatus :
        /\ d.atleta_id \in AtletasNomeaveis
        /\ d.torneio_id = 1 \/ d.atleta_id = 1
        /\ InscricaoExistente(inscricoes, d) = 0
        /\ criar_inscricao(d, s)
GerarChaveamento == \E t \in Torneios, c \in Categorias : gerar_chaveamento(t, c)
GetChaveamento == \E t \in Torneios, c \in Categorias : get_chaveamento(t, c)

Next == CriarInscricao \/ GerarChaveamento \/ GetChaveamento

Spec == Init /\ [][Next]_vars

-----------------------------------------------------------------------------
(* The directory of athletes, one request at a time *)

CreateAtleta == \E d \in AtletaBodies : create_atleta(d)

NextAtleta == CreateAtleta

SpecAtleta == Init /\ [][NextAtleta]_vars

-----------------------------------------------------------------------------
(* The registrations, one request at a time *)

\* every body: duplicates, optional keys, a missing key
CriarInscricaoQualquer ==
    \E d \in InscricaoBodiesFull, s \in InscricaoStatus :
        /\ IF Has(d, "atleta_id") THEN d.atleta_id \in AtletasNomeaveis ELSE TRUE
        /\ IF InscricaoRaises(d) THEN TRUE
           ELSE Len(inscricoes) < MaxRegistos \/ InscricaoExistente(inscricoes, d) # 0
        /\ criar_inscricao(d, s)

NextReg == CriarInscricaoQualquer

SpecReg == Init /\ [][NextReg]_vars

-----------------------------------------------------------------------------
(* Brackets and results, one request at a time *)

\* the teams of the matches: confirmed registrations of tournament 1, new
\* triples only
CriarInscricaoConfirmada ==
    \E d \in InscricaoBodiesPlain :
        /\ d.atleta_id \in AtletasNomeaveis
        /\ d.atleta_id \in {1, 2}
        /\ d.torneio_id = 1
        /\ InscricaoExistente(inscricoes, d) = 0
        /\ criar_inscricao(d, "confirmada")

InserirResultado == \E id \in JogoIds, d \in ResultadoBodies : inserir_resultado(id, d)

NextJogo == CriarInscricaoConfirmada \/ GerarChaveamento \/ InserirResultado

SpecJogo == Init /\ [][NextJogo]_vars

-----------------------------------------------------------------------------
(* Two workers: a request's existence query and its commit are two steps,  *)
(* and the other worker may take steps between them                        *)

Queried(w, h) == workers[w].stage = "queried" /\ workers[w].req.handler = h

Release(w) == workers' = [workers EXCEPT ![w] = Idle]

Hold(w, r, found, extra) ==
    /\ workers' = [workers EXCEPT ![w] =
                      [stage |-> "queried", req |-> r, found |-> found, extra |-> extra]]
    /\ UNCHANGED <<atletas, inscricoes, chaveamentos, jogos, clock, req, resp, pre, gens>>

\* create_atleta up to its query
AtletaQuery(w, data) ==
    /\ workers[w] = Idle
    /\ Hold(w, AtletaReq(data), IF EmailJaCadastrado(atletas, data) THEN 1 ELSE 0, 0)

\* the commit asking again
FoundAgora(w) ==
    IF workers[w].req.handler = "criar_inscricao"
    THEN InscricaoExistente(inscricoes, workers[w].req.data)
    ELSE IF workers[w].req.handler = "create_atleta"
    THEN (IF EmailJaCadastrado(atletas, workers[w].req.data) THEN 1 ELSE 0)
    ELSE ChaveamentoExistente(chaveamentos, workers[w].req.torneio_id,
                              workers[w].req.categoria_id)

\* what the commit of worker w goes by: the answer its query got
\* (if atleta-exists / if inscricao_existente / if chaveamento)
Found(w) == workers[w].found

\* create_atleta from its query on
AtletaFinish(w) ==
    /\ Queried(w, "create_atleta")
    /\ AtletaCommit(workers[w].req, workers[w].req.data, Found(w) # 0)
    /\ Release(w)

\* criar_inscricao up to its query
InscricaoQuery(w, data, status) ==
    /\ workers[w] = Idle
    /\ Hold(w, InscricaoReq(data), InscricaoExistente(inscricoes, data), status)

\* criar_inscricao from its query on
InscricaoFinish(w) ==
    /\ Queried(w, "criar_inscricao")
    /\ InscricaoCommit(workers[w].req, workers[w].req.data, workers[w].extra, Found(w))
    /\ Release(w)

\* gerar_chaveamento up to its query for the bracket row
GerarQuery(w, t, c) ==
    LET insc == Confirmadas(inscricoes, t, c)
    IN  /\ workers[w] = Idle
        /\ ~Insuficiente(insc)
        /\ \E perm \in Shuffles(insc) :
              Hold(w, GerarReq(t, c), ChaveamentoExistente(chaveamentos, t, c), perm)

\* gerar_chaveamento from that query on
GerarFinish(w) ==
    /\ Queried(w, "gerar_chaveamento")
    /\ GerarCommit(workers[w].req, workers[w].req.torneio_id, workers[w].req.categoria_id,
                   workers[w].extra, Found(w))
    /\ Release(w)

ConcAtletaQuery == \E w \in Workers, d \in [nome : Nomes, email : {"a@x"}] : AtletaQuery(w, d)
ConcAtletaFinish == \E w \in Workers : AtletaFinish(w)
ConcInscricaoQuery ==
    \E w \in Workers, d \in InscricaoBodiesPlain :
        /\ d.torneio_id = 1 /\ d.atleta_id = 1
        /\ InscricaoQuery(w, d, "confirmada")
ConcInscricaoFinish == \E w \in Workers : InscricaoFinish(w)
ConcGerarQuery == \E w \in Workers, t \in Torneios, c \in Categorias : GerarQuery(w, t, c)
ConcGerarFinish == \E w \in Workers : GerarFinish(w)

NextConc ==
    \/ ConcAtletaQuery \/ ConcAtletaFinish
    \/ ConcInscricaoQuery \/ ConcInscricaoFinish
    \/ ConcGerarQuery \/ ConcGerarFinish

SpecConc == Init /\ [][NextConc]_vars

-----------------------------------------------------------------------------
(* What the last request was, and what it found *)

Handled(h) == req.handler = h

\* the pair a bracket request names
ReqPar == <<req.torneio_id, req.categoria_id>>

\* the confirmed registrations the last bracket request loaded (no bracket
\* request writes the registrations)
ReqConfirmadas == Confirmadas(pre.inscricoes, req.torneio_id, req.categoria_id)

\* the ids of the matches the last request added
NovosJogos == (Len(pre.jogos) + 1)..Len(jogos)

Equipes(j) == {jogos[j].equipe1_id, jogos[j].equipe2_id}

\* the registrations in the matches the last request added
Emparelhadas == UNION {Equipes(j) : j \in NovosJogos}

JogosIntactos == SubSeq(jogos, 1, Len(pre.jogos)) = pre.jogos

-----------------------------------------------------------------------------
(* POST /jogos/<id>/resultado on an id that is no match *)

\* C1: a result submitted for a match id that does not exist is answered
\* 404, and no match is created or modified.
C1_NotFound ==
    (Handled("inserir_resultado") /\ req.jogo_id \notin Ids(pre.jogos))
        => (resp.code = 404 /\ jogos = pre.jogos)

-----------------------------------------------------------------------------
(* Bracket generation *)

\* C2: a generation for a pair with N >= 2 confirmed registrations succeeds
\* and adds exactly N \div 2 matches of that pair, phase 'primeira_fase',
\* round 1; each names two distinct registrations, both among the pair's
\* confirmed ones; no registration is in two of the added matches; and when
\* N is odd exactly one confirmed registration is in none of them.
C2_PrimeiraFase ==
    (Handled("gerar_chaveamento") /\ Cardinality(ReqConfirmadas) >= 2) =>
        /\ resp.code = 201
        /\ JogosIntactos
        /\ Cardinality(NovosJogos) = Cardinality(ReqConfirmadas) \div 2
        /\ \A j \in NovosJogos :
              /\ jogos[j].fase = "primeira_fase" /\ jogos[j].rodada = 1
              /\ <<jogos[j].torneio_id, jogos[j].categoria_id>> = ReqPar
              /\ jogos[j].equipe1_id # jogos[j].equipe2_id
              /\ Equipes(j) \subseteq ReqConfirmadas
        /\ \A j, k \in NovosJogos : j # k => Equipes(j) \cap Equipes(k) = {}
        /\ Cardinality(ReqConfirmadas) % 2 = 1
              => Cardinality(ReqConfirmadas \ Emparelhadas) = 1

\* a generation over three confirmed registrations has added its one match
C2_Witness ==
    /\ Handled("gerar_chaveamento") /\ resp.code = 201
    /\ Cardinality(ReqConfirmadas) = 3
    /\ Cardinality(NovosJogos) = 1
    /\ Cardinality(ReqConfirmadas \ Emparelhadas) = 1

\* C3: a generation for a pair with 0 or 1 confirmed registrations is
\* answered 400 and leaves every table as it was, whatever registrations of
\* another status the pair has.
C3_Insuficiente ==
    (Handled("gerar_chaveamento") /\ Cardinality(ReqConfirmadas) < 2) =>
        (resp.code = 400 /\ Store = pre)

\* refused with one confirmed and one unconfirmed registration in the pair
C3_Witness ==
    /\ Handled("gerar_chaveamento") /\ resp.code = 400
    /\ Cardinality(ReqConfirmadas) = 1
    /\ \E i \in Ids(inscricoes) :
          /\ <<inscricoes[i].torneio_id, inscricoes[i].categoria_id>> = ReqPar
          /\ inscricoes[i].status # "confirmada"

\* the bracket row the last bracket request found for its pair, 0 when none
ReqChaveamento == ChaveamentoExistente(pre.chaveamentos, req.torneio_id, req.categoria_id)

\* C4: a successful generation for a pair that already has a bracket row
\* overwrites that row (same id, the structure of this generation, a later
\* update timestamp) and adds no row; and every pair has at most one
\* bracket row.
C4_Upsert ==
    /\ (Handled("gerar_chaveamento") /\ resp.code = 201 /\ ReqChaveamento # 0) =>
          /\ Len(chaveamentos) = Len(pre.chaveamentos)
          /\ resp.id = ReqChaveamento
          /\ \A i \in Ids(chaveamentos) : i # ReqChaveamento => chaveamentos[i] = pre.chaveamentos[i]
          /\ <<chaveamentos[ReqChaveamento].torneio_id,
               chaveamentos[ReqChaveamento].categoria_id>> = ReqPar
          /\ LET perm == chaveamentos[ReqChaveamento].estrutura_json.participantes
             IN  /\ {perm[i] : i \in DOMAIN perm} = ReqConfirmadas
                 /\ Len(perm) = Cardinality(ReqConfirmadas)
                 /\ \A k \in 1..Cardinality(NovosJogos) :
                       /\ jogos[Len(pre.jogos) + k].equipe1_id = perm[2 * k - 1]
                       /\ jogos[Len(pre.jogos) + k].equipe2_id = perm[2 * k]
          /\ chaveamentos[ReqChaveamento].data_atualizacao = clock
          /\ chaveamentos[ReqChaveamento].data_atualizacao
                > pre.chaveamentos[ReqChaveamento].data_atualizacao
    /\ \A p \in Pares : Cardinality(ChaveamentosDe(chaveamentos, p[1], p[2])) <= 1

\* a second generation for a pair has overwritten its row with another order
C4_Witness ==
    /\ Handled("gerar_chaveamento") /\ resp.code = 201 /\ ReqChaveamento # 0
    /\ chaveamentos[ReqChaveamento].estrutura_json
          # pre.chaveamentos[ReqChaveamento].estrutura_json
    /\ Len(chaveamentos) = 1

-----------------------------------------------------------------------------
(* Athletes *)

\* C5: a create-athlete request carrying the email of an existing athlete
\* is answered 400 and changes no table; no two athletes share an email.
C5_EmailUnico ==
    /\ (Handled("create_atleta") /\ Has(req.data, "email")
        /\ AtletasComEmail(pre.atletas, Get(req.data, "email")) # {})
          => (resp.code = 400 /\ Store = pre)
    /\ \A i, j \in Ids(atletas) : atletas[i].email = atletas[j].email => i = j

\* a second creation with a taken email has been refused
C5_Witness ==
    /\ Handled("create_atleta") /\ resp.code = 400
    /\ Len(atletas) >= 1
    /\ \E i \in Ids(atletas) : atletas[i].email = req.data.email

-----------------------------------------------------------------------------
(* Registrations *)

ReqTriplo(tab) ==
    InscricoesDe(tab, req.data.torneio_id, req.data.categoria_id, req.data.atleta_id)

\* C6: a create-registration request for a triple that has a registration
\* is answered 400, adds no row and leaves the registration's fields as
\* they were, whatever partner or team name it carries; there is at most
\* one registration per (tournament, category, athlete).
C6_InscricaoUnica ==
    /\ (Handled("criar_inscricao") /\ ~InscricaoRaises(req.data)
        /\ InscricoesDe(pre.inscricoes, Get(req.data, "torneio_id"),
                        Get(req.data, "categoria_id"), Get(req.data, "atleta_id")) # {})
          => (resp.code = 400 /\ inscricoes = pre.inscricoes /\ Store = pre)
    /\ \A i, j \in Ids(inscricoes) :
          (/\ inscricoes[i].torneio_id = inscricoes[j].torneio_id
           /\ inscricoes[i].categoria_id = inscricoes[j].categoria_id
           /\ inscricoes[i].atleta_id = inscricoes[j].atleta_id) => i = j

\* a duplicate carrying another partner and another team name has been refused
C6_Witness ==
    /\ Handled("criar_inscricao") /\ resp.code = 400
    /\ \E i \in ReqTriplo(inscricoes) :
          /\ inscricoes[i].parceiro_id # Get(req.data, "parceiro_id")
          /\ inscricoes[i].nome_equipe # Get(req.data, "nome_equipe")

\* C8: there is at most one registration per (athlete, category), requests
\* naming the same athlete and category under different tournaments included.
C8_UmaPorAtletaCategoria ==
    \A i, j \in Ids(inscricoes) :
        (/\ inscricoes[i].atleta_id = inscricoes[j].atleta_id
         /\ inscricoes[i].categoria_id = inscricoes[j].categoria_id) => i = j

-----------------------------------------------------------------------------
(* Results *)

\* C7: a result submitted for an existing match sets its status to
\* 'finalizado' and its scores to the two submitted; the same submission
\* again leaves the same match; a submission on a finished match is
\* accepted like any other and its scores replace the earlier ones.
C7_Resultado ==
    (Handled("inserir_resultado") /\ req.jogo_id \in Ids(pre.jogos)
     /\ ~ResultadoRaises(req.data)) =>
        /\ resp.code = 200
        /\ Len(jogos) = Len(pre.jogos)
        /\ \A i \in Ids(jogos) : i # req.jogo_id => jogos[i] = pre.jogos[i]
        /\ jogos[req.jogo_id].status = "finalizado"
        /\ jogos[req.jogo_id].placar_equipe1 = req.data.placar_equipe1
        /\ jogos[req.jogo_id].placar_equipe2 = req.data.placar_equipe2
        /\ jogos[req.jogo_id].equipe1_id = pre.jogos[req.jogo_id].equipe1_id
        /\ jogos[req.jogo_id].equipe2_id = pre.jogos[req.jogo_id].equipe2_id
        /\ ComResultado(jogos[req.jogo_id], req.data) = jogos[req.jogo_id]

\* a finished match has taken a second result with other scores
C7_Witness ==
    /\ Handled("inserir_resultado") /\ resp.code = 200
    /\ pre.jogos[req.jogo_id].status = "finalizado"
    /\ pre.jogos[req.jogo_id].placar_equipe1 # req.data.placar_equipe1
    /\ pre.jogos[req.jogo_id].placar_equipe2 # req.data.placar_equipe2
    /\ jogos[req.jogo_id].placar_equipe1 = req.data.placar_equipe1
    /\ jogos[req.jogo_id].placar_equipe2 = req.data.placar_equipe2

-----------------------------------------------------------------------------
(* Generations of one pair add up *)

\* every successful generation of pair p loaded the same confirmed set
MesmasConfirmadas(p) == \A i, j \in DOMAIN gens[p] : gens[p][i] = gens[p][j]

\* the matches of pair p that name registration i
JogosCom(p, i) ==
    {j \in JogosDe(jogos, p[1], p[2]) : i \in {jogos[j].equipe1_id, jogos[j].equipe2_id}}

\* C10: a generation deletes and modifies no match; after k successful
\* generations of a pair over the same N confirmed registrations the pair
\* has k * (N \div 2) matches, so from k = 2 on some registration is in more
\* than one of them; and a fetch of the bracket answers with the pair's one
\* bracket row and the matches of all its generations.
C10_Acumula ==
    /\ Handled("gerar_chaveamento") => JogosIntactos
    /\ \A p \in Pares :
          (Len(gens[p]) >= 1 /\ MesmasConfirmadas(p)) =>
              /\ Cardinality(JogosDe(jogos, p[1], p[2]))
                    = Len(gens[p]) * (Cardinality(gens[p][1]) \div 2)
              /\ Len(gens[p]) >= 2 =>
                    \E i \in gens[p][1] : Cardinality(JogosCom(p, i)) >= 2
    /\ (Handled("get_chaveamento") /\ resp.code = 200) =>
          /\ ChaveamentosDe(chaveamentos, req.torneio_id, req.categoria_id) = {resp.id}
          /\ resp.jogos = JogosDe(jogos, req.torneio_id, req.categoria_id)

\* a bracket fetched after two generations over the same three registrations
C10_Witness ==
    /\ Handled("get_chaveamento") /\ resp.code = 200
    /\ Len(gens[ReqPar]) = 2 /\ MesmasConfirmadas(ReqPar)
    /\ Cardinality(gens[ReqPar][1]) = 3
    /\ Cardinality(resp.jogos) = 2
    /\ Len(chaveamentos) = 1
    /\ \E i \in gens[ReqPar][1] : Cardinality(JogosCom(ReqPar, i)) = 2

-----------------------------------------------------------------------------
(* The race between the existence query and the insert *)

\* worker w commits in this step a request whose query found nothing
CommitsUnfound(w, h) ==
    /\ workers[w].stage = "queried" /\ workers[w].req.handler = h
    /\ workers[w].found = 0
    /\ workers'[w] = Idle

\* C9: the existence query and the insert are not one step: a request whose
\* query found no row still inserts when another request has committed a
\* row with its key in between, leaving two rows with that key (two
\* registrations of a triple, two athletes of an email, two bracket rows of
\* a pair).
C9_Race ==
    [][\A w \in Workers :
        /\ (/\ CommitsUnfound(w, "criar_inscricao")
            /\ InscricaoExistente(inscricoes, workers[w].req.data) # 0)
              => /\ resp'.code = 201
                 /\ Cardinality(InscricoesDe(inscricoes', workers[w].req.data.torneio_id,
                                             workers[w].req.data.categoria_id,
                                             workers[w].req.data.atleta_id)) >= 2
        /\ (/\ CommitsUnfound(w, "create_atleta")
            /\ EmailJaCadastrado(atletas, workers[w].req.data))
              => /\ resp'.code = 201
                 /\ Cardinality(AtletasComEmail(atletas', workers[w].req.data.email)) >= 2
        /\ (/\ CommitsUnfound(w, "gerar_chaveamento")
            /\ ChaveamentoExistente(chaveamentos, workers[w].req.torneio_id,
                                    workers[w].req.categoria_id) # 0)
              => /\ resp'.code = 201
                 /\ Cardinality(ChaveamentosDe(chaveamentos', workers[w].req.torneio_id,
                                               workers[w].req.categoria_id)) >= 2
      ]_vars

\* two registrations of one triple, two athletes of one email and two
\* bracket rows of one pair
C9_Witness ==
    /\ \E i, j \in Ids(inscricoes) :
          /\ i # j
          /\ inscricoes[i].torneio_id = inscricoes[j].torneio_id
          /\ inscricoes[i].categoria_id = inscricoes[j].categoria_id
          /\ inscricoes[i].atleta_id = inscricoes[j].atleta_id
    /\ \E i, j \in Ids(atletas) : i # j /\ atletas[i].email = atletas[j].email
    /\ \E i, j \in Ids(chaveamentos) :
          /\ i # j
          /\ chaveamentos[i].torneio_id = chaveamentos[j].torneio_id
          /\ chaveamentos[i].categoria_id = chaveamentos[j].categoria_id

====
